---- MODULE Spec2Model ----
(***************************************************************************)
(* The conversation router of dataline                                     *)
(* (src/backend/dataline/api/conversation/router.py).                      *)
(*                                                                         *)
(* Two endpoints are modelled:                                             *)
(*   - query: the streaming endpoint.  The handler returns a               *)
(*     StreamingResponse over conversation_service.query(...) with the     *)
(*     BackgroundTask commit_and_close_session.  The response object runs  *)
(*     the body iterator to its end and then awaits the background task;   *)
(*     an exception out of the body iterator leaves the response before    *)
(*     the background task is awaited.                                     *)
(*   - execute_sql: the run-sql endpoint.                                  *)
(*                                                                         *)
(* conversation_service.query (the flow step engine), execute_sql_query    *)
(* and the lookups of ConversationService / ConnectionService are not part *)
(* of router.py; they are modelled after sections 4.1, 4.3 and 4.5 of the  *)
(* specification.                                                          *)
(***************************************************************************)
EXTENDS Integers, Sequences, FiniteSets, TLC

VARIABLES
    pc,        \* pc[i]: where request i of the query endpoint is
    eng,       \* eng[i]: the flow step engine inside the body iterator of i:
               \*   state, cycles (proposing cycles started), sqlRuns (statements
               \*   proposed), fail (error kind), errors (Error events produced),
               \*   opened (the external database has been opened)
    inflight,  \* inflight[i]: the event produced and not yet sent to the client
    outcome,   \* outcome[i]: how the event sequence of i ended
    session,   \* session[s]: the AsyncSession handed to request s
    visible,   \* visible[s]: rows of session s that later reads see (committed)
    hook,      \* hook[i]: what commit_and_close_session of i met and raised
    rs,        \* the last call of the run-sql endpoint
    extRows    \* number of rows of the table in the external database

vars == <<pc, eng, inflight, outcome, session, visible, hook, rs, extRows>>

streamVars == <<pc, eng, inflight, outcome, session, visible, hook>>

----------------------------------------------------------------------------
(* Bounds *)

NumInvocations == 2     \* concurrent requests of the query endpoint
MaxSteps == 2           \* the engine's configured max-steps N
MaxRows == 3            \* rows the external table can hold
MaxLimit == 2           \* largest explicit limit argument tried

(* Program constants *)

DefaultLimit == 10           \* execute_sql: limit: int = 10
ExecutorDefaultLimit == 10   \* section 4.1: rowLimit "default small, e.g. 10"

Inv == 1..NumInvocations

Min(a, b) == IF a <= b THEN a ELSE b

Count(seq, x) == Cardinality({k \in 1..Len(seq) : seq[k] = x})

----------------------------------------------------------------------------
(* State after construction *)

NoEngine == [state |-> "NotStarted", cycles |-> 0, sqlRuns |-> 0, fail |-> "none",
             errors |-> 0, opened |-> FALSE]

\* The body iterator has ended or was cancelled: its frame is gone.
ClosedEngine == [NoEngine EXCEPT !.state = "closed"]

NoHook == [ran |-> FALSE, commitFailed |-> FALSE, raised |-> << >>]

NoCall == [called |-> FALSE, conv |-> TRUE, conn |-> TRUE, sql |-> "SELECT",
           limit |-> DefaultLimit, execute |-> TRUE, opened |-> FALSE,
           executed |-> FALSE, status |-> "none", columns |-> << >>,
           rows |-> << >>, yielded |-> 0, tableBefore |-> 0]

Init ==
    /\ pc = [i \in Inv |-> "idle"]
    /\ eng = [i \in Inv |-> NoEngine]
    /\ inflight = [i \in Inv |-> "none"]
    /\ outcome = [i \in Inv |-> "none"]
    /\ session = [s \in Inv |-> [calls |-> << >>, pending |-> 0]]
    /\ visible = [s \in Inv |-> 0]
    /\ hook = [i \in Inv |-> NoHook]
    /\ rs = NoCall
    /\ extRows = 0

----------------------------------------------------------------------------
(* The session of a request.  Depends(get_session_no_commit) is resolved   *)
(* once per request, so request i works on a session of its own; the       *)
(* dependency neither commits nor closes it.                               *)

SharedSession(i) == 1

SessionOf(i) == i

Buffer(i, n) ==
    session' = [session EXCEPT ![SessionOf(i)].pending = @ + n]

----------------------------------------------------------------------------
(* query: the handler builds the StreamingResponse and returns it.  It     *)
(* awaits nothing: the body iterator has not started and the session is    *)
(* untouched when the handler returns.                                     *)

query_commits_before_return(i) ==
    /\ pc[i] = "idle"
    /\ pc' = [pc EXCEPT ![i] = "streaming"]
    /\ eng' = [eng EXCEPT ![i] = [NoEngine EXCEPT !.state = "Init"]]
    /\ session' = [session EXCEPT ![SessionOf(i)].calls = @ \o <<"commit", "close">>]
    /\ UNCHANGED <<inflight, outcome, visible, hook, rs, extRows>>

query(i) ==
    /\ pc[i] = "idle"
    /\ pc' = [pc EXCEPT ![i] = "streaming"]
    /\ eng' = [eng EXCEPT ![i] = [NoEngine EXCEPT !.state = "Init"]]
    /\ UNCHANGED <<inflight, outcome, session, visible, hook, rs, extRows>>

----------------------------------------------------------------------------
(* conversation_service.query: the flow step engine (section 4.3), run as  *)
(* the body iterator.  It advances only when the response asks for the     *)
(* next event, i.e. when the previous event has been sent.                 *)

Producing(i) == pc[i] = "streaming" /\ inflight[i] = "none"

Terminal(i) == eng[i].state \in {"Done", "Failed"}

\* Side transition to Failed: one terminal Error event; the error Message is
\* persisted (buffered in the session) if feasible, i.e. when the
\* conversation exists.
Fail(i, kind) ==
    /\ eng' = [eng EXCEPT ![i].state = "Failed", ![i].fail = kind, ![i].errors = @ + 1]
    /\ inflight' = [inflight EXCEPT ![i] = "Error"]
    /\ Buffer(i, IF kind = "NotFound" THEN 0 ELSE 1)

\* Init: resolve the conversation and its connection (section 4.5), load
\* the history.  NotFound becomes a terminal Error event.
EngineInit(i) ==
    /\ Producing(i)
    /\ eng[i].state = "Init"
    /\ \E found \in BOOLEAN :
          IF found
          THEN /\ eng' = [eng EXCEPT ![i].state = "Proposing", ![i].cycles = 1]
               /\ UNCHANGED <<inflight, session>>
          ELSE Fail(i, "NotFound")
    /\ UNCHANGED <<pc, outcome, visible, hook, rs, extRows>>

ModelActions == {"ProposeSQL", "AskClarification", "FinalAnswer", "ModelUnavailable"}

\* Proposing: ask the model for the next action.
Proposing(i) ==
    /\ Producing(i)
    /\ eng[i].state = "Proposing"
    /\ \E action \in ModelActions :
          CASE action = "ProposeSQL" ->
                  /\ eng' = [eng EXCEPT ![i].state = "Executing", ![i].sqlRuns = @ + 1]
                  /\ inflight' = [inflight EXCEPT ![i] = "SQLProposed"]
                  /\ UNCHANGED session
            [] action \in {"AskClarification", "FinalAnswer"} ->
                  /\ eng' = [eng EXCEPT ![i].state = "Finalizing"]
                  /\ inflight' = [inflight EXCEPT ![i] = "FinalAnswer"]
                  /\ UNCHANGED session
            [] OTHER -> Fail(i, "ModelUnavailable")
    /\ UNCHANGED <<pc, outcome, visible, hook, rs, extRows>>

\* Executing: run the proposed statement through the query executor.  A
\* failed execution is folded back as an observation, not an abort.
Executing(i) ==
    /\ Producing(i)
    /\ eng[i].state = "Executing"
    /\ eng' = [eng EXCEPT ![i].state = "Observing", ![i].opened = TRUE]
    /\ \E ok \in BOOLEAN :
          IF ok
          THEN /\ inflight' = [inflight EXCEPT ![i] = "SQLResult"]
               /\ Buffer(i, 1)
          ELSE UNCHANGED <<inflight, session>>
    /\ UNCHANGED <<pc, outcome, visible, hook, rs, extRows>>

StepLimitOffByOne(c) == c <= MaxSteps

WithinStepLimit(c) == c < MaxSteps

\* Observing: fold the observation into the context and start the next
\* cycle, unless the step ceiling is reached.
Observing(i) ==
    /\ Producing(i)
    /\ eng[i].state = "Observing"
    /\ IF WithinStepLimit(eng[i].cycles)
       THEN /\ eng' = [eng EXCEPT ![i].state = "Proposing", ![i].cycles = @ + 1]
            /\ UNCHANGED <<inflight, session>>
       ELSE Fail(i, "StepLimitExceeded")
    /\ UNCHANGED <<pc, outcome, visible, hook, rs, extRows>>

\* Finalizing: persist the assistant Message (buffered) and end normally.
Finalizing(i) ==
    /\ Producing(i)
    /\ eng[i].state = "Finalizing"
    /\ eng' = [eng EXCEPT ![i].state = "Done"]
    /\ Buffer(i, 1)
    /\ UNCHANGED <<pc, inflight, outcome, visible, hook, rs, extRows>>

----------------------------------------------------------------------------
(* StreamingResponse(body iterator, background=BackgroundTask(hook)).      *)

\* The response sends the event in flight to the client; only then does it
\* ask the body iterator for the next one.
Send(i) ==
    /\ pc[i] = "streaming"
    /\ inflight[i] # "none"
    /\ inflight' = [inflight EXCEPT ![i] = "none"]
    /\ UNCHANGED <<pc, eng, outcome, session, visible, hook, rs, extRows>>

\* The body iterator is exhausted (the engine reached Done or Failed and its
\* last event was sent): the response goes on to its background task.
StreamExhausted(i) ==
    /\ Producing(i)
    /\ Terminal(i)
    /\ outcome' = [outcome EXCEPT ![i] = eng[i].state]
    /\ eng' = [eng EXCEPT ![i] = ClosedEngine]
    /\ pc' = [pc EXCEPT ![i] = "background"]
    /\ UNCHANGED <<inflight, session, visible, hook, rs, extRows>>

\* An exception escapes the body iterator: it propagates out of the
\* response, which never reaches its background task.
ProducerRaises(i) ==
    /\ Producing(i)
    /\ ~Terminal(i)
    /\ outcome' = [outcome EXCEPT ![i] = "raised"]
    /\ eng' = [eng EXCEPT ![i] = ClosedEngine]
    /\ pc' = [pc EXCEPT ![i] = "finished"]
    /\ UNCHANGED <<inflight, session, visible, hook, rs, extRows>>

\* The client goes away while events are still being produced or sent.  The
\* body iterator is cancelled.  Depending on the server's ASGI version the
\* response then either goes on to its background task (disconnect heard on
\* the receive channel) or raises ClientDisconnect and skips it (send fails).
ClientDisconnects(i) ==
    /\ pc[i] = "streaming"
    /\ ~(Terminal(i) /\ inflight[i] = "none")
    /\ outcome' = [outcome EXCEPT ![i] = "disconnected"]
    /\ eng' = [eng EXCEPT ![i] = ClosedEngine]
    /\ inflight' = [inflight EXCEPT ![i] = "none"]
    /\ \E runsBackground \in BOOLEAN :
          pc' = [pc EXCEPT ![i] = IF runsBackground THEN "background" ELSE "finished"]
    /\ UNCHANGED <<session, visible, hook, rs, extRows>>

----------------------------------------------------------------------------
(* commit_and_close_session, the background task:                          *)
(*     try: await session.commit()                                         *)
(*     except Exception: await session.rollback(); raise                   *)
(*     finally: await session.close()                                      *)

HookOutcomes == {"ok", "commitFails", "commitAndRollbackFail"}

\* The calls made on the session, in order.
SessionCalls(out) ==
    IF out = "ok" THEN <<"commit", "close">> ELSE <<"commit", "rollback", "close">>

HookSwallows(out) == << >>

\* What the task raises: nothing, the commit failure (bare raise), or the
\* rollback failure raised while the commit failure was being handled.
HookRaises(out) ==
    CASE out = "ok" -> << >>
      [] out = "commitFails" -> <<"commit">>
      [] OTHER -> <<"commit", "rollback">>

commit_and_close_session(i) ==
    /\ pc[i] = "background"
    /\ \E out \in HookOutcomes :
          LET s == SessionOf(i) IN
          /\ session' = [session EXCEPT ![s] =
                            [calls |-> @.calls \o SessionCalls(out), pending |-> 0]]
          /\ visible' = [visible EXCEPT ![s] =
                            IF out = "ok" THEN @ + session[s].pending ELSE @]
          /\ hook' = [hook EXCEPT ![i] =
                         [ran |-> TRUE, commitFailed |-> out # "ok",
                          raised |-> HookRaises(out)]]
    /\ pc' = [pc EXCEPT ![i] = "finished"]
    /\ UNCHANGED <<eng, inflight, outcome, rs, extRows>>

----------------------------------------------------------------------------
(* execute_sql, the run-sql endpoint.                                      *)

Statements == {"SELECT", "INSERT", "DELETE"}

Columns == <<"id", "name">>

Limits == (0..MaxLimit) \cup {DefaultLimit}

\* The query executor (section 4.1): the statement is applied to the table;
\* a SELECT yields every row, another statement yields none and changes the
\* table.
RowsYielded(sql, table) == IF sql = "SELECT" THEN table ELSE 0

TableAfter(sql, table) ==
    CASE sql = "INSERT" -> table + 1
      [] sql = "DELETE" -> IF table > 0 THEN table - 1 ELSE 0
      [] OTHER -> table

\* At most rowLimit rows are materialized; the column list is always full.
execute_sql_query(table, sql, rowLimit) ==
    [columns |-> IF sql = "SELECT" THEN Columns ELSE << >>,
     rows |-> [k \in 1..Min(rowLimit, RowsYielded(sql, table)) |-> k]]

OpensDatabaseBeforeLookup(conv, conn) == TRUE

\* get_conversation, then get_connection, raise when the row is missing;
\* SQLDatabase.from_uri(connection.dsn) comes after both.
OpensDatabase(conv, conn) == conv /\ conn

\* The handler takes limit and execute from the request and calls
\* execute_sql_query(db, sql): neither argument reaches the executor, which
\* runs the statement with its own default row limit.
execute_sql ==
    \E conv \in BOOLEAN, conn \in BOOLEAN, sql \in Statements,
       limit \in Limits, execute \in BOOLEAN :
        /\ sql = "INSERT" => extRows < MaxRows
        /\ LET opened == OpensDatabase(conv, conn)
               query_run_data == execute_sql_query(extRows, sql, ExecutorDefaultLimit)
           IN  /\ rs' = [called |-> TRUE, conv |-> conv, conn |-> conn, sql |-> sql,
                         limit |-> limit, execute |-> execute,
                         opened |-> opened, executed |-> opened,
                         status |-> IF conv /\ conn THEN "ok" ELSE "NotFound",
                         columns |-> IF opened THEN query_run_data.columns ELSE << >>,
                         rows |-> IF opened THEN query_run_data.rows ELSE << >>,
                         yielded |-> RowsYielded(sql, extRows),
                         tableBefore |-> extRows]
               /\ extRows' = IF opened THEN TableAfter(sql, extRows) ELSE extRows
        /\ UNCHANGED streamVars

----------------------------------------------------------------------------

StreamNext(I) ==
    \E i \in I :
        \/ query(i)
        \/ EngineInit(i)
        \/ Proposing(i)
        \/ Executing(i)
        \/ Observing(i)
        \/ Finalizing(i)
        \/ Send(i)
        \/ StreamExhausted(i)
        \/ ProducerRaises(i)
        \/ ClientDisconnects(i)
        \/ commit_and_close_session(i)

Next == StreamNext(Inv)

Spec == Init /\ [][Next]_vars

\* Both endpoints, with one streaming request.
NextEndpoints == execute_sql \/ StreamNext({1})

SpecEndpoints == Init /\ [][NextEndpoints]_vars

----------------------------------------------------------------------------
(* Properties *)

Calls(i) == session[i].calls

Ended(i) == pc[i] = "finished"

(* C1: every invocation of the streaming query whose event sequence ends   *)
(* in an error (the engine's Failed state, or an exception escaping the    *)
(* producer) is rolled back and never committed: none of the writes it     *)
(* buffered is visible to later reads.                                     *)
C1_ErrorNeverCommitted ==
    \A i \in Inv :
        outcome[i] \in {"Failed", "raised"} => visible[i] = 0

(* C2: an invocation that runs to Done has commit called on its session    *)
(* exactly once, by the end-of-stream hook; no commit or rollback is made  *)
(* before the handler has returned, while events are produced or sent, or  *)
(* before the stream is drained; a commit that succeeds makes the buffered *)
(* writes visible.                                                         *)
C2_CommitOnceAfterDrain ==
    \A i \in Inv :
        /\ pc[i] \in {"idle", "streaming", "background"} => Calls(i) = << >>
        /\ pc[i] = "background" => inflight[i] = "none" /\ eng[i].state = "closed"
        /\ (Ended(i) /\ outcome[i] = "Done") =>
              /\ hook[i].ran
              /\ Count(Calls(i), "commit") = 1
              /\ Calls(i)[1] = "commit"
              /\ ~hook[i].commitFailed =>
                    /\ Count(Calls(i), "rollback") = 0
                    /\ visible[i] > 0

C2_Witness ==
    \E i \in Inv :
        /\ Ended(i)
        /\ outcome[i] = "Done"
        /\ Calls(i) = <<"commit", "close">>
        /\ visible[i] > 0

(* C3: when the consumer disconnects while events are still being produced *)
(* the session is rolled back as on error: commit is never called for the  *)
(* abandoned stream and nothing it buffered becomes visible.               *)
C3_DisconnectNeverCommits ==
    \A i \in Inv :
        outcome[i] = "disconnected" =>
            /\ Count(Calls(i), "commit") = 0
            /\ visible[i] = 0

(* C4: on every exit path of an invocation (normal completion, error       *)
(* raised by the producer, consumer cancellation) the session has been     *)
(* closed exactly once when the invocation is over, and the close is the   *)
(* last call, after the commit or rollback.                                *)
C4_ClosedOnEveryExit ==
    \A i \in Inv :
        Ended(i) =>
            /\ Count(Calls(i), "close") = 1
            /\ Len(Calls(i)) >= 2
            /\ Calls(i)[Len(Calls(i))] = "close"

(* C5: when the commit of the end-of-stream hook fails, the calls on the   *)
(* session are commit, rollback, close in that order, nothing is made      *)
(* visible, and the hook raises with the commit failure first in the       *)
(* chain of what it reports.                                               *)
C5_CommitFailureReported ==
    \A i \in Inv :
        hook[i].commitFailed =>
            /\ Calls(i) = <<"commit", "rollback", "close">>
            /\ visible[i] = 0
            /\ hook[i].raised # << >>
            /\ hook[i].raised[1] = "commit"

C5_Witness ==
    \E i \in Inv :
        /\ Ended(i)
        /\ hook[i].commitFailed
        /\ hook[i].raised = <<"commit">>
        /\ Calls(i) = <<"commit", "rollback", "close">>

(* C6: a run-sql call with limit L whose statement yields R rows returns   *)
(* exactly min(L, R) rows and the full column list.                        *)
C6_RowLimitApplied ==
    (rs.called /\ rs.status = "ok" /\ rs.sql = "SELECT") =>
        /\ Len(rs.rows) = Min(rs.limit, rs.yielded)
        /\ rs.columns = Columns

(* C7: a run-sql call with execute = false leaves the external database    *)
(* as it was.                                                              *)
C7_DryRunLeavesDatabase ==
    (rs.called /\ ~rs.execute) => extRows = rs.tableBefore

(* C8: when the conversation or its connection does not exist the lookup   *)
(* fails with NotFound before anything is opened or executed on the        *)
(* external database; in the streaming query the failure is one terminal   *)
(* Error event and the producer ends without raising.                      *)
C8_NotFoundState ==
    /\ (rs.called /\ ~(rs.conv /\ rs.conn)) =>
          /\ rs.status = "NotFound"
          /\ ~rs.opened
          /\ ~rs.executed
          /\ rs.rows = << >>
          /\ extRows = rs.tableBefore
    /\ \A i \in Inv :
          eng[i].fail = "NotFound" =>
              /\ eng[i].state = "Failed"
              /\ eng[i].errors = 1
              /\ ~eng[i].opened
              /\ eng[i].sqlRuns = 0

C8_NotFoundStep ==
    \A i \in Inv :
        (eng[i].fail = "NotFound" /\ eng'[i] # eng[i]) =>
            /\ eng'[i].state = "closed"
            /\ outcome'[i] \in {"Failed", "disconnected"}

C8_NotFoundIsError == [](C8_NotFoundState) /\ [][C8_NotFoundStep]_vars

C8_Witness ==
    /\ rs.called
    /\ ~rs.conv
    /\ rs.status = "NotFound"
    /\ outcome[1] = "Failed"
    /\ visible[1] = 0
    /\ session[1].pending = 0
    /\ Ended(1)

(* C9: with several invocations running concurrently, the calls on the     *)
(* session of an invocation change only in the step of that invocation's   *)
(* own end-of-stream hook, and that step touches no other session.         *)
C9_OwnHookStep ==
    \A s \in Inv :
        (session'[s].calls # session[s].calls \/ visible'[s] # visible[s]) =>
            /\ pc[s] = "background"
            /\ pc'[s] = "finished"
            /\ \A j \in Inv \ {s} :
                  /\ pc'[j] = pc[j]
                  /\ session'[j] = session[j]
                  /\ visible'[j] = visible[j]

C9_OnlyOwnHook == [][C9_OwnHookStep]_vars

C9_Witness ==
    \E i, j \in Inv :
        /\ i # j
        /\ Ended(i)
        /\ Calls(i) # << >>
        /\ pc[j] = "streaming"
        /\ session[j].pending > 0
        /\ Calls(j) = << >>

(* C10: the engine never starts more than MaxSteps proposing cycles; it    *)
(* fails with StepLimitExceeded only after exactly MaxSteps cycles each of *)
(* which proposed SQL; and it reaches Done only through a cycle that did   *)
(* not propose SQL.                                                        *)
C10_StepCeiling ==
    \A i \in Inv :
        /\ eng[i].cycles <= MaxSteps
        /\ eng[i].sqlRuns <= eng[i].cycles
        /\ eng[i].fail = "StepLimitExceeded" =>
              /\ eng[i].state = "Failed"
              /\ eng[i].cycles = MaxSteps
              /\ eng[i].sqlRuns = MaxSteps
        /\ (eng[i].state = "Observing" /\ eng[i].cycles = MaxSteps) =>
              eng[i].sqlRuns = MaxSteps
        /\ eng[i].state \in {"Finalizing", "Done"} => eng[i].sqlRuns < eng[i].cycles

C10_Witness ==
    \E i \in Inv :
        /\ eng[i].state = "Failed"
        /\ eng[i].fail = "StepLimitExceeded"
        /\ eng[i].cycles = MaxSteps
        /\ inflight[i] = "Error"

====
